---- MODULE Spec2Model ----
(***************************************************************************)
(* Model of src/scraper.py: the listing-text segmentation                  *)
(* (parse_metric, parse_category_list_item) and the category crawl         *)
(* (scrape_category_page, scrape_category_with_pagination, __main__).      *)
(*                                                                         *)
(* Text is a sequence of one-character strings.  The string "KELVIN"       *)
(* stands for the single code point U+212A (KELVIN SIGN), which            *)
(* re.IGNORECASE lets [KMB] match and which str.upper() leaves unchanged.  *)
(* Python's None is the value None below, which no text equals.            *)
(***************************************************************************)
EXTENDS Integers, Sequences, FiniteSets, TLC

None == <<"None">>

\* ------------------------------------------------------------------------
\* Characters and the string primitives the parser uses
\* ------------------------------------------------------------------------

Digits == {"0", "1", "2", "3", "4", "5", "6", "7", "8", "9"}

IsSpace(c) == c \in {" ", "\t"}

\* str.isdigit() on the characters of the model's alphabet
IsDigit(c) == c \in Digits

\* a character [KMB] matches under re.IGNORECASE
IsSuffixChar(c) == c \in {"K", "M", "B", "k", "m", "b", "KELVIN"}

\* str.upper() of a suffix character
Upper(c) ==
  CASE c = "k" -> "K"
    [] c = "m" -> "M"
    [] c = "b" -> "B"
    [] OTHER -> c

\* the places where a maximal run of non-whitespace starts
TokenStarts(s) ==
  {i \in DOMAIN s : ~IsSpace(s[i]) /\ (i = 1 \/ IsSpace(s[i - 1]))}

\* the place where the run that starts at i ends
TokenEnd(s, i) ==
  LET after == {j \in i..Len(s) : IsSpace(s[j])}
  IN IF after = {} THEN Len(s)
     ELSE (CHOOSE j \in after : \A k \in after : j <= k) - 1

\* str.split() with no argument: the maximal runs of non-whitespace
Split(s) ==
  LET starts == TokenStarts(s)
      start(k) == CHOOSE i \in starts : Cardinality({j \in starts : j < i}) = k - 1
  IN [k \in 1..Cardinality(starts) |-> SubSeq(s, start(k), TokenEnd(s, start(k)))]

RECURSIVE Join(_, _)
\* sep.join(parts)
Join(parts, sep) ==
  IF parts = <<>> THEN <<>>
  ELSE IF Len(parts) = 1 THEN parts[1]
  ELSE parts[1] \o sep \o Join(Tail(parts), sep)

RECURSIVE LStrip(_)
LStrip(s) == IF s # <<>> /\ IsSpace(s[1]) THEN LStrip(Tail(s)) ELSE s

RECURSIVE RStrip(_)
RStrip(s) ==
  IF s # <<>> /\ IsSpace(s[Len(s)]) THEN RStrip(SubSeq(s, 1, Len(s) - 1)) ELSE s

\* str.strip()
Strip(s) == RStrip(LStrip(s))

\* the places where sub occurs in s
Occurrences(s, sub) ==
  {i \in 1..(Len(s) - Len(sub) + 1) : SubSeq(s, i, i + Len(sub) - 1) = sub}

\* sub in s
Contains(s, sub) == Occurrences(s, sub) # {}

\* s.split(sub, 1) when sub occurs in s: the text before and after the first occurrence
SplitOnce(s, sub) ==
  LET i == CHOOSE k \in Occurrences(s, sub) : \A j \in Occurrences(s, sub) : k <= j
  IN <<SubSeq(s, 1, i - 1), SubSeq(s, i + Len(sub), Len(s))>>

\* length of the longest prefix of digits
LeadingDigits(s) ==
  LET others == {i \in DOMAIN s : ~IsDigit(s[i])}
  IN IF others = {} THEN Len(s)
     ELSE (CHOOSE i \in others : \A j \in others : i <= j) - 1

Drop(s, n) == SubSeq(s, n + 1, Len(s))

\* the text after the prefix [0-9]+(?:\.[0-9]+)? of s; None when s has no such prefix
AfterNumber(s) ==
  LET n == LeadingDigits(s)
      r == Drop(s, n)
      f == IF r # <<>> /\ r[1] = "." THEN LeadingDigits(Tail(r)) ELSE 0
  IN IF n = 0 THEN None
     ELSE IF f > 0 THEN Drop(r, 1 + f) ELSE r

\* the pattern with the suffix required
SuffixRequired(s) ==
  LET r == AfterNumber(s)
  IN r # None /\ Len(r) = 1 /\ IsSuffixChar(r[1])

\* re.match(r"^[0-9]+(?:\.[0-9]+)?[KMB]?$", s, re.IGNORECASE)
LooksLikeMetric(s) ==
  LET r == AfterNumber(s)
  IN /\ r # None
     /\ \/ r = <<>>
        \/ Len(r) = 1 /\ IsSuffixChar(r[1])

\* re.match(r"^([0-9]+(?:\.[0-9]+)?)([KMB])$", s, re.IGNORECASE)
MatchesSuffixed(s) ==
  LET r == AfterNumber(s)
  IN r # None /\ Len(r) = 1 /\ IsSuffixChar(r[1])

RECURSIVE StripZeros(_)
\* the decimal numeral of an integer given by its digits
StripZeros(d) ==
  IF Len(d) > 1 /\ d[1] = "0" THEN StripZeros(Tail(d)) ELSE d

Zeros(n) == [i \in 1..n |-> "0"]

\* the power of ten of multiplier = {"K": 1_000, "M": 1_000_000, "B": 1_000_000_000}
Exponent(suffix) ==
  CASE suffix = "K" -> 3
    [] suffix = "M" -> 6
    [] suffix = "B" -> 9

\* ------------------------------------------------------------------------
\* float(num) * multiplier and int(...), lines 63 and 67, in IEEE 754 binary64.
\* A natural number is the sequence of its decimal digits, most significant
\* first and without leading zeros (zero is <<0>>); a double is m * 2^(-s)
\* with 2^52 <= m < 2^53, or zero.
\* ------------------------------------------------------------------------

DigitChars == <<"0", "1", "2", "3", "4", "5", "6", "7", "8", "9">>

DigitVal(c) == CHOOSE v \in 0..9 : DigitChars[v + 1] = c

ToInts(ds) == [i \in 1..Len(ds) |-> DigitVal(ds[i])]

ToChars(n) == [i \in 1..Len(n) |-> DigitChars[n[i] + 1]]

\* without leading zeros
Trim(n) ==
  LET nz == {i \in 1..Len(n) : n[i] # 0}
  IN IF nz = {} THEN <<0>>
     ELSE SubSeq(n, CHOOSE i \in nz : \A j \in nz : i <= j, Len(n))

\* 2 * n: a digit receives a carry exactly when the next digit is 5 or more
Double(n) ==
  LET body == [i \in 1..Len(n) |->
                 (2 * n[i] + (IF i < Len(n) /\ n[i + 1] >= 5 THEN 1 ELSE 0)) % 10]
  IN IF n[1] >= 5 THEN <<1>> \o body ELSE body

\* n \div 2: a digit receives ten exactly when the digit before it is odd
Half(n) ==
  Trim([i \in 1..Len(n) |->
          (n[i] + (IF i > 1 /\ n[i - 1] % 2 = 1 THEN 10 ELSE 0)) \div 2])

Odd(n) == n[Len(n)] % 2 = 1

\* a < b, for numbers of the same length also when they have leading zeros
Less(a, b) ==
  \/ Len(a) < Len(b)
  \/ /\ Len(a) = Len(b)
     /\ LET diff == {i \in 1..Len(a) : a[i] # b[i]}
        IN diff # {} /\ LET k == CHOOSE i \in diff : \A j \in diff : i <= j
                       IN a[k] < b[k]

\* n + 1
Succ(n) ==
  LET low == {i \in 1..Len(n) : n[i] # 9}
  IN IF low = {} THEN <<1>> \o [i \in 1..Len(n) |-> 0]
     ELSE LET k == CHOOSE i \in low : \A j \in low : j <= i
          IN [i \in 1..Len(n) |-> IF i < k THEN n[i] ELSE IF i = k THEN n[i] + 1 ELSE 0]

\* 2^52 and 2^53
Two52 == <<4, 5, 0, 3, 5, 9, 9, 6, 2, 7, 3, 7, 0, 4, 9, 6>>

Two53 == <<9, 0, 0, 7, 1, 9, 9, 2, 5, 4, 7, 4, 0, 9, 9, 2>>

IntZeros(n) == [i \in 1..n |-> 0]

\* [m, s]: the double m * 2^(-s)
Dbl(m, s) == [m |-> m, s |-> s]

\* a significand that rounding carried to 2^53 is 2^52 with the next exponent
Renormalize(m, s) == IF m = Two53 THEN Dbl(Two52, s - 1) ELSE Dbl(m, s)

\* the natural numbers as digit sequences
Naturals10 == Seq(0..9)

\* n \div 2^k
Halves[n \in Naturals10, k \in Nat] ==
  IF k = 0 \/ n = <<0>> THEN n
  ELSE IF k = 1 THEN Half(n)
  ELSE Halves[Halves[n, k \div 2], k - k \div 2]

\* n * 2^k
Doubles[n \in Naturals10, k \in Nat] ==
  IF k = 0 \/ n = <<0>> THEN n
  ELSE IF k = 1 THEN Double(n)
  ELSE Doubles[Doubles[n, k \div 2], k - k \div 2]

\* the least k in lo..hi with n * 2^k >= t, when n * 2^hi >= t
ShiftsUp[n \in Naturals10, t \in Naturals10, lo \in Nat, hi \in Nat] ==
  IF lo >= hi THEN lo
  ELSE LET mid == (lo + hi) \div 2
       IN IF Less(Doubles[n, mid], t) THEN ShiftsUp[n, t, mid + 1, hi]
          ELSE ShiftsUp[n, t, lo, mid]

\* the least k in lo..hi with n \div 2^k < t, when n \div 2^hi < t
ShiftsDown[n \in Naturals10, t \in Naturals10, lo \in Nat, hi \in Nat] ==
  IF lo >= hi THEN lo
  ELSE LET mid == (lo + hi) \div 2
       IN IF Less(Halves[n, mid], t) THEN ShiftsDown[n, t, lo, mid]
          ELSE ShiftsDown[n, t, mid + 1, hi]

\* whether one of the k lowest bits of n is set
LowBits(n, k) == Doubles[Halves[n, k], k] # n

\* float(ip "." fr), line 63: the double nearest to the decimal, ties to even.
\* The decimal is d / 10^f with f >= 1 (a zero is added after the last
\* digit); d * 2^s / 10^f is brought into [2^52, 2^53), s of either sign, and
\* rounded on the f digits after the point and the bits dropped.  2^(4 * l)
\* exceeds every number of l digits.
ToFloat(ip, fr) ==
  LET d == Trim(ToInts(ip \o fr \o <<"0">>))
      f == Len(fr) + 1
  IN IF d = <<0>> THEN Dbl(<<0>>, 0)
     ELSE
       LET small == Less(d, Two52 \o IntZeros(f))
           k == IF small THEN ShiftsUp[d, Two52 \o IntZeros(f), 0, 4 * (f + Len(Two52))]
                ELSE ShiftsDown[d, Two53 \o IntZeros(f), 0, 4 * Len(d)]
           n == IF small THEN Doubles[d, k] ELSE Halves[d, k]
           sticky == ~small /\ LowBits(d, k)
           m == SubSeq(n, 1, Len(n) - f)
           rest == SubSeq(n, Len(n) - f + 1, Len(n))
           half == <<5>> \o IntZeros(f - 1)
           up == Less(half, rest) \/ (rest = half /\ (sticky \/ Odd(m)))
       IN Renormalize(IF up THEN Succ(m) ELSE m, IF small THEN k ELSE -k)

\* x * 10^e, line 67: the exact product rounded to the nearest double, ties
\* to even (10^e is a double for e <= 9)
Times(x, e) ==
  IF x.m = <<0>> THEN x
  ELSE
    LET full == x.m \o IntZeros(e)
        k == ShiftsDown[full, Two53, 0, 4 * Len(full)]
        p == Halves[full, k]
        guard == k > 0 /\ Odd(Halves[full, k - 1])
        sticky == k > 1 /\ LowBits(full, k - 1)
        up == guard /\ (sticky \/ Odd(p))
    IN Renormalize(IF up THEN Succ(p) ELSE p, x.s - k)

\* int(x) for x >= 0: the integer part
Trunc(x) == IF x.s >= 0 THEN Halves[x.m, x.s] ELSE Doubles[x.m, -x.s]

\* the most digits an integer can have and be below 2^53 whatever they are
ExactDigits == 15

\* num * 10^e cut at the decimal point, in exact arithmetic
Exact(num, e) ==
  LET n == LeadingDigits(num)
      ip == SubSeq(num, 1, n)
      fr == IF n < Len(num) THEN Drop(num, n + 1) ELSE <<>>
  IN StripZeros(ip \o SubSeq(fr \o Zeros(e), 1, e))

\* sys.float_info.max_10_exp: 10^308 is a double and 10^309 is not
MaxDecimalExponent == 308

\* 2^1024: a double rounded to this or more is inf
Two1024 ==
  <<1, 7, 9, 7, 6, 9, 3, 1, 3, 4, 8, 6, 2, 3, 1, 5, 9, 0, 7, 7,
   2, 9, 3, 0, 5, 1, 9, 0, 7, 8, 9, 0, 2, 4, 7, 3, 3, 6, 1, 7,
   9, 7, 6, 9, 7, 8, 9, 4, 2, 3, 0, 6, 5, 7, 2, 7, 3, 4, 3, 0,
   0, 8, 1, 1, 5, 7, 7, 3, 2, 6, 7, 5, 8, 0, 5, 5, 0, 0, 9, 6,
   3, 1, 3, 2, 7, 0, 8, 4, 7, 7, 3, 2, 2, 4, 0, 7, 5, 3, 6, 0,
   2, 1, 1, 2, 0, 1, 1, 3, 8, 7, 9, 8, 7, 1, 3, 9, 3, 3, 5, 7,
   6, 5, 8, 7, 8, 9, 7, 6, 8, 8, 1, 4, 4, 1, 6, 6, 2, 2, 4, 9,
   2, 8, 4, 7, 4, 3, 0, 6, 3, 9, 4, 7, 4, 1, 2, 4, 3, 7, 7, 7,
   6, 7, 8, 9, 3, 4, 2, 4, 8, 6, 5, 4, 8, 5, 2, 7, 6, 3, 0, 2,
   2, 1, 9, 6, 0, 1, 2, 4, 6, 0, 9, 4, 1, 1, 9, 4, 5, 3, 0, 8,
   2, 9, 5, 2, 0, 8, 5, 0, 0, 5, 7, 6, 8, 8, 3, 8, 1, 5, 0, 6,
   8, 2, 3, 4, 2, 4, 6, 2, 8, 8, 1, 4, 7, 3, 9, 1, 3, 1, 1, 0,
   5, 4, 0, 8, 2, 7, 2, 3, 7, 1, 6, 3, 3, 5, 0, 5, 1, 0, 6, 8,
   4, 5, 8, 6, 2, 9, 8, 2, 3, 9, 9, 4, 7, 2, 4, 5, 9, 3, 8, 4,
   7, 9, 7, 1, 6, 3, 0, 4, 8, 3, 5, 3, 5, 6, 3, 2, 9, 6, 2, 4,
   2, 2, 4, 1, 3, 7, 2, 1, 6>>

\* float(num) * multiplier is inf: int() of line 67 raises OverflowError
IsInf(v) == ~Less(ToInts(v), Two1024)

\* int(float(num) * multiplier) as a decimal numeral, multiplier = 10^e.  An
\* integer below 2^53 is a double, and so is its product when below 2^53.
Scaled(num, e) ==
  LET n == LeadingDigits(num)
      ip == SubSeq(num, 1, n)
      fr == IF n < Len(num) THEN Drop(num, n + 1) ELSE <<>>
  IN IF fr = <<>> /\ Len(ip) + e <= ExactDigits
       THEN StripZeros(ip \o Zeros(e))
       ELSE ToChars(Trunc(Times(ToFloat(ip, fr), e)))

\* int(text) of line 58 raises ValueError for more digits than
\* sys.int_info.default_max_str_digits (CPython 3.11 and later, and the
\* security releases of 3.7 to 3.10), leading zeros counted
MaxStrDigits == 4300

\* parse_metric(raw): [raw, value, exc]; exc names the exception raised, if any
parse_metric(raw) ==
  IF raw = None \/ raw = <<>>
    THEN [raw |-> None, value |-> None, exc |-> "no"]
    ELSE
      LET text == Strip(raw)
      IN IF ~MatchesSuffixed(text)
           THEN IF text # <<>> /\ \A i \in 1..Len(text) : IsDigit(text[i])
                  THEN [raw |-> text,
                        value |-> IF Len(text) > MaxStrDigits
                                    THEN None ELSE StripZeros(text),
                        exc |-> "no"]
                  ELSE [raw |-> text, value |-> None, exc |-> "no"]
           ELSE
             LET num == SubSeq(text, 1, Len(text) - 1)
                 suffix == Upper(text[Len(text)])
             IN IF suffix \notin {"K", "M", "B"}
                  THEN [raw |-> None, value |-> None, exc |-> "KeyError"]
                  ELSE
                    LET v == Scaled(num, Exponent(suffix))
                    IN IF IsInf(v)
                         THEN [raw |-> None, value |-> None, exc |-> "OverflowError"]
                         ELSE [raw |-> text, value |-> v, exc |-> "no"]

Marker == <<" ", "1", "2", "3", "3", " ">>

Space == <<" ">>

\* " ".join(text.split())
Normalize(text) == Join(Split(text), Space)

Result(n, mr, mv, d, e) ==
  [name |-> n, metric_raw |-> mr, metric_value |-> mv, description |-> d, exc |-> e]

\* the head's tokens without the last, even when it is the only one
HeadNameStripped(parts, before) == Join(SubSeq(parts, 1, Len(parts) - 1), Space)

\* line 99: " ".join(parts[:-1]) if len(parts) > 1 else before
HeadName(parts, before) ==
  IF Len(parts) > 1 THEN Join(SubSeq(parts, 1, Len(parts) - 1), Space) ELSE before

\* parse_category_list_item(text)
parse_category_list_item(text) ==
  IF text = <<>> \/ text = None
    THEN Result(None, None, None, None, "no")
    ELSE
      LET normalized == Normalize(text)
      IN IF Contains(normalized, Marker)
           THEN
             LET ba == SplitOnce(normalized, Marker)
                 before == ba[1]
                 description == Strip(ba[2])
                 parts == Split(before)
             IN IF parts # <<>>
                  THEN
                    LET last == parts[Len(parts)]
                    IN IF LooksLikeMetric(last)
                         THEN
                           LET m == parse_metric(last)
                           IN IF m.exc # "no"
                                THEN Result(None, None, None, None, m.exc)
                                ELSE Result(HeadName(parts, before),
                                            m.raw, m.value, description, "no")
                         ELSE Result(Strip(before), None, None, description, "no")
                  ELSE Result(normalized, None, None, description, "no")
           ELSE Result(normalized, None, None, <<>>, "no")

\* ------------------------------------------------------------------------
\* Bounded inputs of the parser
\* ------------------------------------------------------------------------

MaxPieces == 5

\* fragments the listing texts are built from: a letter, digits, the suffixes,
\* a decimal point, whitespace, and the marker token with and without its spaces
Pieces ==
  { <<"a", " ">>, <<"5">>, <<"k">>, <<"KELVIN">>, <<".">>, <<"\t">>,
    <<"1", "2", "3", "3">>, <<" ", "1", "2", "3", "3", " ">> }

RECURSIVE TextsOf(_)
TextsOf(n) ==
  IF n = 0 THEN {<<>>}
  ELSE LET S == TextsOf(n - 1) IN S \cup {s \o p : s \in S, p \in Pieces}

\* listing texts whose metric is a run of n digits, for the n around the
\* limit of int(), and such a run with the suffix k, for the n around the
\* largest double
LongTexts ==
  {<<"a", " ">> \o [i \in 1..n |-> "5"] \o Marker \o <<"a">> :
     n \in {MaxStrDigits, MaxStrDigits + 1}}
  \cup
  {<<"a", " ">> \o first \o [i \in 1..n |-> "5"] \o <<"k">> \o Marker \o <<"a">> :
     first \in {<<"1">>, <<"5">>},
     n \in (MaxDecimalExponent - 4)..(MaxDecimalExponent - 2)}

\* ------------------------------------------------------------------------
\* URLs, listing anchors and records
\* ------------------------------------------------------------------------

\* a URL is the sequence of its origin and path segments
BASE_URL == "https://aitoolfor.org"

\* urljoin(BASE_URL, href) for a root-relative href (first segment "/") and
\* for an absolute one
urljoin(base, href) == IF href[1] = "/" THEN <<base>> \o Tail(href) ELSE href

make_full_url(href) == IF href = <<>> THEN None ELSE urljoin(BASE_URL, href)

\* the anchors a listing page can hold: href and visible text
\* (a.get_text(" ", strip=True))
Anchor(h, t) == [href |-> h, text |-> t]

Anchors ==
  { Anchor(<<"/", "tools", "a">>,
           <<"W", " ", "5", "K", " ", "1", "2", "3", "3", " ", "d">>),
    Anchor(<<BASE_URL, "tools", "a">>,
           <<"x", " ", "5", "KELVIN", " ", "1", "2", "3", "3", " ", "d">>),
    Anchor(<<"/", "tools", "b">>, <<>>),
    Anchor(<<"/", "tools", "c">>, <<"W">>),
    Anchor(<<BASE_URL, "tools", "c">>, <<"W">>) }

Urls == {make_full_url(a.href) : a \in Anchors}

\* what scrape_tool_page returns when its fetch succeeds
PageData == <<"page_data">>

\* a record that keeps the name in place of the listing's text
RecordOfName(category_slug, item, tool_url, raw_text, page_data) ==
  [category |-> category_slug,
   name |-> item.name,
   metric_raw |-> item.metric_raw,
   metric_value_estimate |-> item.metric_value,
   description_preview |-> item.description,
   url |-> tool_url,
   raw_text |-> item.name,
   page_data |-> page_data]

\* the base record of lines 233-241, then record.update(page_data) when the
\* tool page was fetched; page_data = None: no enrichment field was added
Record(category_slug, item, tool_url, raw_text, page_data) ==
  [category |-> category_slug,
   name |-> item.name,
   metric_raw |-> item.metric_raw,
   metric_value_estimate |-> item.metric_value,
   description_preview |-> item.description,
   url |-> tool_url,
   raw_text |-> raw_text,
   page_data |-> page_data]

\* the links of the category index page
CategoryLinks == { <<"/", "categories", "x">>, <<BASE_URL, "categories", "y">> }

MaxLinks == 2

RECURSIVE LinkLists(_)
LinkLists(n) ==
  IF n = 0 THEN {<<>>}
  ELSE LET S == LinkLists(n - 1) IN S \cup {Append(s, l) : s \in S, l \in CategoryLinks}

RECURSIVE CategoriesOf(_, _)
\* lines 183-195: one category per slug, the first link of a slug wins
CategoriesOf(links, acc) ==
  IF links = <<>> THEN acc
  ELSE
    LET full == make_full_url(links[1])
        slug == full[Len(full)]
    IN IF \E i \in DOMAIN acc : acc[i].slug = slug
         THEN CategoriesOf(Tail(links), acc)
         ELSE CategoriesOf(Tail(links), Append(acc, [slug |-> slug, url |-> full]))

\* f"{base_url}?page={page}"
PageUrl(base_url, page) == base_url \o <<"?page=", page>>

\* ------------------------------------------------------------------------
\* The output ordering: sort by (category or "", name or "")
\* ------------------------------------------------------------------------

\* code points of the characters that occur in slugs and names
Code(c) ==
  CASE c = "\t" -> 9 [] c = " " -> 32 [] c = "." -> 46
    [] c = "1" -> 49 [] c = "2" -> 50 [] c = "3" -> 51 [] c = "5" -> 53
    [] c = "K" -> 75 [] c = "W" -> 87
    [] c = "a" -> 97 [] c = "b" -> 98 [] c = "d" -> 100 [] c = "k" -> 107
    [] c = "x" -> 120 [] c = "y" -> 121
    [] c = "KELVIN" -> 8490

RECURSIVE StrLess(_, _)
\* s < t for Python strings
StrLess(s, t) ==
  IF t = <<>> THEN FALSE
  ELSE IF s = <<>> THEN TRUE
  ELSE IF s[1] # t[1] THEN Code(s[1]) < Code(t[1])
  ELSE StrLess(Tail(s), Tail(t))

OrEmpty(v) == IF v = None THEN <<>> ELSE v

\* the sort key of line 314; a slug is one character here
SortKey(t) == <<OrEmpty(<<t.category>>), OrEmpty(t.name)>>

KeyLess(k, l) == StrLess(k[1], l[1]) \/ (k[1] = l[1] /\ StrLess(k[2], l[2]))

\* the list as it is
Unsorted(ts) == ts

\* list.sort(key=...), which is stable: a record goes before another when its
\* key is smaller, or when the keys are equal and it came first
SortTools(ts) ==
  LET Before(i, j) ==
        \/ KeyLess(SortKey(ts[i]), SortKey(ts[j]))
        \/ (~KeyLess(SortKey(ts[j]), SortKey(ts[i])) /\ i < j)
      Rank(i) == 1 + Cardinality({j \in DOMAIN ts : Before(j, i)})
  IN [k \in DOMAIN ts |-> ts[CHOOSE i \in DOMAIN ts : Rank(i) = k]]

\* ------------------------------------------------------------------------
\* State
\* ------------------------------------------------------------------------

\* no call made yet
Pending == Result(None, None, None, None, "pending")

PendingMetric == [raw |-> None, value |-> None, exc |-> "pending"]

\* get_soup(url, retries=3, backoff=3)
DefaultRetries == 3

DefaultBackoff == 3

MaxRetries == 3

MaxBackoff == 3

MaxMetricPieces == 4

\* fragments the arguments of parse_metric are built from
MetricPieces == { <<"1">>, <<"4">>, <<"6">>, <<".">>, <<"K">>, <<"m">>, <<"B">>,
                  <<"KELVIN">> }

RECURSIVE TokensOf(_)
TokensOf(n) ==
  IF n = 0 THEN {<<>>}
  ELSE LET S == TokensOf(n - 1) IN S \cup {t \o p : t \in S, p \in MetricPieces}

MaxEntries == 2

MaxFetches == 4

VARIABLES
  pc,            \* where the run is
  categories,    \* __main__: the list discover_categories returned
  ci,            \* __main__: index of the category of the for loop
  main_tools,    \* __main__: all_tools
  output,        \* the sequence written to aitools.json, None before the write
  writes,        \* how many times the output file was written
  crawled,       \* the slugs scrape_category_with_pagination was called for
  fetches,       \* how many listing pages the run has requested
  all_tools,     \* scrape_category_with_pagination: all_tools
  seen_urls,     \* scrape_category_with_pagination: seen_urls
  page,          \* scrape_category_with_pagination: page
  log,           \* this category's listing requests and polite delays
  target,        \* scrape_category_page: "page" (called with page_url) or "base"
  tools,         \* scrape_category_page: tools
  left,          \* scrape_category_page: anchors of the list not yet visited
  first_page,    \* per URL, the page whose listing showed it first (0: not yet)
  relisted,      \* the URLs this category's listings showed more than once,
                 \* or NotRecorded
  text,          \* the parser's input
  parsed,        \* the parser's result
  raw,           \* parse_metric: raw
  metric,        \* parse_metric: what the call returned or raised
  fetch_url,     \* get_soup: url
  retries,       \* get_soup: retries
  backoff,       \* get_soup: backoff
  attempt,       \* get_soup: attempt
  events,        \* get_soup: the requests made and the waits, in order
  result         \* get_soup: "idle", "running", "returned", "raised" or
                 \* "RuntimeError"

mainVars == <<categories, ci, main_tools, output, writes, crawled>>

catVars == <<all_tools, seen_urls, page, log>>
pageVars == <<target, tools, left>>
histVars == <<first_page, relisted>>
parseVars == <<text, parsed>>
metricVars == <<raw, metric>>
soupVars == <<fetch_url, retries, backoff, attempt, events, result>>

vars == <<pc, mainVars, fetches, catVars, pageVars, histVars, parseVars,
          metricVars, soupVars>>

\* the entries of log: a request for ?page=n, a request for the base URL,
\* and time.sleep(0.4)
Get(n) == <<"get", n>>
GetRoot == <<"get", 0>>
Sleep == <<"sleep", 0>>

\* the value of relisted in the runs that keep no count of the listings
NotRecorded == {<<"not recorded">>}

InitCrawl ==
  /\ pc = "discover"
  /\ categories = <<>>
  /\ ci = 1
  /\ main_tools = <<>>
  /\ output = None
  /\ writes = 0
  /\ crawled = <<>>
  /\ fetches = 0
  /\ all_tools = <<>>
  /\ seen_urls = {}
  /\ page = 1
  /\ log = <<>>
  /\ target = "page"
  /\ tools = <<>>
  /\ left = 0
  /\ first_page = [u \in Urls |-> 0]

\* no call of the parser, of parse_metric, of get_soup on its own
NoParse == text = <<>> /\ parsed = Pending

NoMetric == raw = <<>> /\ metric = PendingMetric

NoFetch ==
  /\ fetch_url = None
  /\ retries = DefaultRetries
  /\ backoff = DefaultBackoff
  /\ attempt = 1
  /\ events = <<>>
  /\ result = "idle"

Init ==
  /\ InitCrawl
  /\ relisted = NotRecorded
  /\ NoParse
  /\ NoMetric
  /\ NoFetch

InitParse ==
  /\ InitCrawl
  /\ relisted = NotRecorded
  /\ text \in TextsOf(MaxPieces) \cup LongTexts
  /\ parsed = Pending
  /\ NoMetric
  /\ NoFetch

\* ------------------------------------------------------------------------
\* The parser on its own
\* ------------------------------------------------------------------------

\* one call parse_category_list_item(text)
ParseItem ==
  /\ parsed = Pending
  /\ parsed' = parse_category_list_item(text)
  /\ UNCHANGED <<pc, mainVars, fetches, catVars, pageVars, histVars, text,
                 metricVars, soupVars>>

NextParse == ParseItem

SpecParse == InitParse /\ [][NextParse]_vars

\* ------------------------------------------------------------------------
\* parse_metric on its own
\* ------------------------------------------------------------------------

InitMetric ==
  /\ InitCrawl
  /\ relisted = NotRecorded
  /\ NoParse
  /\ raw \in TokensOf(MaxMetricPieces)
  /\ metric = PendingMetric
  /\ NoFetch

\* one call parse_metric(raw)
ParseMetric ==
  /\ metric = PendingMetric
  /\ metric' = parse_metric(raw)
  /\ UNCHANGED <<pc, mainVars, fetches, catVars, pageVars, histVars, parseVars,
                 raw, soupVars>>

NextMetric == ParseMetric

SpecMetric == InitMetric /\ [][NextMetric]_vars

\* ------------------------------------------------------------------------
\* get_soup on its own
\* ------------------------------------------------------------------------

\* the entries of events: requests.get with raise_for_status (1: it succeeded,
\* 0: it raised) and time.sleep(seconds)
Request(ok) == <<"request", IF ok THEN 1 ELSE 0>>

Wait(seconds) == <<"sleep", seconds>>

\* the same wait after every attempt
ConstantWait(b, a) == b

\* line 29: backoff * attempt
WaitFor(b, a) == b * a

InitFetch ==
  /\ InitCrawl
  /\ relisted = NotRecorded
  /\ NoParse
  /\ NoMetric
  /\ fetch_url \in Urls
  /\ retries \in 0..MaxRetries
  /\ backoff \in 1..MaxBackoff
  /\ attempt = 1
  /\ events = <<>>
  /\ result = "running"

\* lines 14-29: one iteration of the for loop.  The request succeeds and the
\* soup is returned, or it fails: on the last attempt the exception is raised
\* again, otherwise the call sleeps and the loop goes on
Attempt ==
  /\ result = "running"
  /\ attempt <= retries
  /\ \E ok \in BOOLEAN :
       IF ok
         THEN /\ events' = Append(events, Request(TRUE))
              /\ result' = "returned"
              /\ UNCHANGED attempt
         ELSE IF attempt = retries
           THEN /\ events' = Append(events, Request(FALSE))
                /\ result' = "raised"
                /\ UNCHANGED attempt
           ELSE /\ events' = events \o <<Request(FALSE), Wait(WaitFor(backoff, attempt))>>
                /\ attempt' = attempt + 1
                /\ UNCHANGED result
  /\ UNCHANGED <<pc, mainVars, fetches, catVars, pageVars, histVars, parseVars,
                 metricVars, fetch_url, retries, backoff>>

\* line 31: the loop ended without a return or a raise, which happens only
\* when range(1, retries + 1) is empty
LoopExhausted ==
  /\ result = "running"
  /\ attempt > retries
  /\ result' = "RuntimeError"
  /\ UNCHANGED <<pc, mainVars, fetches, catVars, pageVars, histVars, parseVars,
                 metricVars, fetch_url, retries, backoff, attempt, events>>

NextFetch == Attempt \/ LoopExhausted

SpecFetch == InitFetch /\ [][NextFetch]_vars

\* ------------------------------------------------------------------------
\* The run: __main__
\* ------------------------------------------------------------------------

\* line 306: discover_categories() raises when get_soup fails, and the run
\* ends there; otherwise it returns the categories of the index page's links
Discover ==
  /\ pc = "discover"
  /\ \/ /\ pc' = "aborted"
        /\ UNCHANGED categories
     \/ \E links \in LinkLists(MaxLinks) :
          /\ categories' = CategoriesOf(links, <<>>)
          /\ pc' = "categories"
  /\ UNCHANGED <<ci, main_tools, output, writes, crawled, fetches, catVars,
                 pageVars, histVars, parseVars,
                 metricVars, soupVars>>

\* lines 309-310 and 259-265: the next category's crawl starts
BeginCategory ==
  /\ pc = "categories"
  /\ ci <= Len(categories)
  /\ crawled' = Append(crawled, categories[ci].slug)
  /\ all_tools' = <<>>
  /\ seen_urls' = {}
  /\ page' = 1
  /\ log' = <<>>
  /\ first_page' = [u \in Urls |-> 0]
  /\ relisted' = IF relisted = NotRecorded THEN NotRecorded ELSE {}
  /\ pc' = "page"
  /\ UNCHANGED <<categories, ci, main_tools, output, writes, fetches, pageVars,
                 parseVars,
                 metricVars, soupVars>>

\* lines 297-298 and 311: the crawl returns and its records are appended
FinishCategory ==
  /\ pc = "finished"
  /\ main_tools' = main_tools \o all_tools
  /\ ci' = ci + 1
  /\ pc' = "categories"
  /\ UNCHANGED <<categories, output, writes, crawled, fetches, catVars,
                 pageVars, histVars, parseVars,
                 metricVars, soupVars>>

\* lines 313-318: after the last category, sort in place and write the file
WriteOutput ==
  /\ pc = "categories"
  /\ ci > Len(categories)
  /\ main_tools' = SortTools(main_tools)
  /\ output' = SortTools(main_tools)
  /\ writes' = writes + 1
  /\ pc' = "done"
  /\ UNCHANGED <<categories, ci, crawled, fetches, catVars, pageVars, histVars,
                 parseVars,
                 metricVars, soupVars>>

\* ------------------------------------------------------------------------
\* One category: scrape_category_with_pagination and scrape_category_page
\* ------------------------------------------------------------------------

slug == categories[ci].slug

base_url == categories[ci].url

page_url == PageUrl(base_url, page)

\* no URL counts as seen
NeverSeen(tool_url, seen) == FALSE

\* line 228: tool_url in seen_urls
AlreadySeen(tool_url, seen) == tool_url \in seen

\* "not page_tools" of lines 277 and 287
NoTools(page_tools) == page_tools = <<>>

\* the base URL is tried after any page
TryBaseAnyPage(p, base, url) == base # url

\* lines 278 and 280: the base URL is tried for page 1 only
TryBase(p, base, url) == p = 1 /\ base # url

\* a page number is skipped
SkipPage(p) == p + 2

\* line 295
NextPage(p) == p + 1

\* the exception is not caught and ends the run
AbortOnPageError == "aborted"

\* lines 273-275: an exception of scrape_category_page(page_url) is caught
\* and the loop is left
AfterPageError == "finished"

\* lines 284-289: an exception of scrape_category_page(base_url) is caught,
\* page_tools is still empty and the loop is left
AfterBaseError == "finished"

\* the record is dropped when the tool page cannot be fetched
EnrichOrDrop(ts, record, ok) ==
  IF ok THEN Append(ts, [record EXCEPT !.page_data = PageData]) ELSE ts

\* lines 243-250: record.update(page_data) when scrape_tool_page returned
\* (ok), nothing when it raised (handled at lines 247-248); then
\* tools.append(record)
Enrich(ts, record, ok) ==
  Append(ts, IF ok THEN [record EXCEPT !.page_data = PageData] ELSE record)

\* the listing of one anchor, for the history variables
Listed(u, p) ==
  /\ first_page' = IF first_page[u] = 0 THEN [first_page EXCEPT ![u] = p]
                   ELSE first_page
  /\ relisted' = IF relisted = NotRecorded \/ first_page[u] = 0
                   THEN relisted ELSE relisted \cup {u}

\* lines 272 and 207-219: get_soup(page_url).  The fetch raises (handled at
\* lines 273-275: break), or the page has n anchors in the first list after
\* the heading; n = 0 also stands for a page with no heading or no list,
\* for which scrape_category_page returns [] at lines 212 and 217
GetListing ==
  /\ pc = "page"
  /\ fetches < MaxFetches
  /\ fetches' = fetches + 1
  /\ log' = Append(log, Get(page))
  /\ target' = "page"
  /\ tools' = <<>>
  /\ \/ /\ pc' = AfterPageError
        /\ left' = 0
     \/ \E n \in 0..MaxEntries :
          /\ pc' = "entries"
          /\ left' = n
  /\ UNCHANGED <<mainVars, all_tools, seen_urls, page, first_page, relisted,
                 parseVars,
                 metricVars, soupVars>>

\* line 283: get_soup(base_url).  A failure is handled at lines 284-285 and
\* leaves page_tools empty, so line 287 breaks
GetBase ==
  /\ pc = "fallback"
  /\ fetches < MaxFetches
  /\ fetches' = fetches + 1
  /\ log' = Append(log, GetRoot)
  /\ target' = "base"
  /\ tools' = <<>>
  /\ \/ /\ pc' = AfterBaseError
        /\ left' = 0
     \/ \E n \in 0..MaxEntries :
          /\ pc' = "entries"
          /\ left' = n
  /\ UNCHANGED <<mainVars, all_tools, seen_urls, page, first_page, relisted,
                 parseVars,
                 metricVars, soupVars>>

\* lines 221-250: one anchor of the list.  An exception of the parser leaves
\* scrape_category_page; both handlers (lines 273-275, and 284-285 followed by
\* 287-289) end the crawl of the category.  A failure of the tool page's
\* fetch (ok = FALSE) is handled at lines 247-248.
ProcessEntry ==
  /\ pc = "entries"
  /\ left > 0
  /\ \E a \in Anchors :
       LET raw_text == a.text
           item == parse_category_list_item(raw_text)
           tool_url == make_full_url(a.href)
       IN /\ Listed(tool_url, page)
          /\ IF item.exc # "no"
               THEN /\ pc' = IF target = "page" THEN AfterPageError ELSE AfterBaseError
                    /\ tools' = <<>>
                    /\ left' = 0
                    /\ UNCHANGED seen_urls
               ELSE IF AlreadySeen(tool_url, seen_urls)
                 THEN /\ left' = left - 1
                      /\ UNCHANGED <<pc, tools, seen_urls>>
                 ELSE /\ seen_urls' = seen_urls \cup {tool_url}
                      /\ \E ok \in BOOLEAN :
                           tools' = Enrich(tools,
                             Record(slug, item, tool_url, raw_text, None), ok)
                      /\ left' = left - 1
                      /\ UNCHANGED pc
  /\ UNCHANGED <<mainVars, fetches, all_tools, page, log, target, parseVars,
                 metricVars, soupVars>>

\* line 252 and lines 277-295: scrape_category_page returns tools as
\* page_tools; the loop tries the base URL, stops, or goes on to the next page
ReturnTools ==
  /\ pc = "entries"
  /\ left = 0
  /\ IF NoTools(tools)
       THEN /\ pc' = IF target = "page" /\ TryBase(page, base_url, page_url)
                       THEN "fallback" ELSE "finished"
            /\ UNCHANGED <<all_tools, page, log>>
       ELSE /\ all_tools' = all_tools \o tools
            /\ log' = Append(log, Sleep)
            /\ page' = NextPage(page)
            /\ pc' = "page"
  /\ tools' = <<>>
  /\ UNCHANGED <<mainVars, fetches, seen_urls, target, left, first_page,
                 relisted, parseVars,
                 metricVars, soupVars>>

Next ==
  \/ Discover
  \/ BeginCategory
  \/ GetListing
  \/ GetBase
  \/ ProcessEntry
  \/ ReturnTools
  \/ FinishCategory
  \/ WriteOutput

Spec == Init /\ [][Next]_vars

\* the same run, with the repeated listings of each category recorded
InitListings ==
  /\ InitCrawl
  /\ relisted = {}
  /\ NoParse
  /\ NoMetric
  /\ NoFetch

SpecListings == InitListings /\ [][Next]_vars

\* ------------------------------------------------------------------------
\* Properties of the category crawl
\* ------------------------------------------------------------------------

\* the requests for ?page=n this category has made, in order
PageRequests == SelectSeq(log, LAMBDA e : e[1] = "get" /\ e[2] > 0)

\* the records of rs whose url is u
RecordsOf(rs, u) == {i \in DOMAIN rs : rs[i].url = u}

InCrawl == pc \in {"page", "entries", "fallback", "finished"}

\* C1: the listing pages are requested in the order ?page=1, ?page=2, ...;
\* every page before the current one gave at least one new entry, and each
\* entry first listed on such a page has exactly one record in the result;
\* when the crawl has stopped, the last page requested is the first one that
\* gave no new entry, and no later page was requested.
C1_PaginationTermination ==
  InCrawl =>
    /\ \A i \in DOMAIN PageRequests : PageRequests[i] = Get(i)
    /\ Len(PageRequests) = IF pc = "page" THEN page - 1 ELSE page
    /\ \A j \in 1..(page - 1) :
         \E i \in DOMAIN all_tools : first_page[all_tools[i].url] = j
    /\ \A u \in Urls :
         first_page[u] \in 1..(page - 1) => Cardinality(RecordsOf(all_tools, u)) = 1
    /\ \A i \in DOMAIN all_tools : first_page[all_tools[i].url] \in 1..page
    /\ pc = "finished" =>
         \A i \in DOMAIN all_tools : first_page[all_tools[i].url] < page

\* pages 1 to 3 gave entries and ?page=4 was answered with an empty list
C1_Witness ==
  /\ pc = "entries" /\ target = "page" /\ left = 0 /\ tools = <<>>
  /\ page = 4
  /\ Len(all_tools) = 3
  /\ log = <<Get(1), Sleep, Get(2), Sleep, Get(3), Sleep, Get(4)>>

\* C2: at the end of a category's crawl no two records have the same url, and
\* a URL that the listings showed more than once has exactly one record.
C2_IntraCategoryDedup ==
  pc = "finished" =>
    /\ \A i, j \in DOMAIN all_tools :
         all_tools[i].url = all_tools[j].url => i = j
    /\ \A u \in relisted : Cardinality(RecordsOf(all_tools, u)) = 1

\* C3: the base URL is requested only as the second request of a category,
\* right after ?page=1 returned no entry and before any record was gathered;
\* when ?page=1 returns no entry the next request is the one of the base URL;
\* entries of the base URL are appended and the crawl goes on with ?page=2;
\* with no entry from the base URL the crawl stops.
C3_Fallback ==
  /\ [](InCrawl =>
         /\ \A i \in DOMAIN log : log[i] = GetRoot => i = 2 /\ log[1] = Get(1)
         /\ pc = "fallback" => page = 1 /\ all_tools = <<>> /\ log = <<Get(1)>>
         /\ target = "base" /\ pc = "entries" => all_tools = <<>> /\ page = 1)
  /\ [][ /\ (pc = "entries" /\ left = 0 /\ target = "page" /\ tools = <<>>)
              => pc' = IF page = 1 THEN "fallback" ELSE "finished"
         /\ (pc = "entries" /\ left = 0 /\ target = "page" /\ tools # <<>>)
              => pc' = "page"
         /\ pc = "fallback" => log' = Append(log, GetRoot)
         /\ (pc = "entries" /\ left = 0 /\ target = "base")
              => IF tools = <<>>
                   THEN pc' = "finished" /\ all_tools' = all_tools
                   ELSE /\ pc' = "page" /\ page' = 2
                        /\ all_tools' = tools
                        /\ \A i \in DOMAIN tools : first_page[tools[i].url] = 1
       ]_vars

\* the base URL gave the entries of page 1 and ?page=2 was requested next
C3_Witness ==
  /\ Len(log) = 4 /\ log[2] = GetRoot /\ log[4] = Get(2)
  /\ all_tools # <<>>

\* C4: a listing fetch that fails is treated like a page without entries: for
\* page 1 the base URL is tried next, for a later page the crawl stops.
C4_FailedFetchAsEmptyPage ==
  [][(pc = "page" /\ pc' \notin {"page", "entries"})
       => pc' = IF page = 1 THEN "fallback" ELSE "finished"]_vars

\* C5: no record is made of an anchor with empty text, and every record has a
\* name.
C5_NamedRecords ==
  \A rs \in {tools, all_tools, main_tools} : \A i \in DOMAIN rs :
    rs[i].raw_text # <<>> /\ rs[i].name # None

\* C6: whenever an entry's URL is marked seen, its record is appended to the
\* page's result with the fields of the listing, whether or not the tool page
\* could be fetched (page_data is None when it could not), and the loop goes
\* on with the next anchor.
C6_EnrichmentFailureSwallowed ==
  [][(pc = "entries" /\ seen_urls' # seen_urls) =>
       \E a \in Anchors :
         LET item == parse_category_list_item(a.text)
             r == tools'[Len(tools')]
         IN /\ seen_urls' = seen_urls \cup {make_full_url(a.href)}
            /\ Len(tools') = Len(tools) + 1
            /\ SubSeq(tools', 1, Len(tools)) = tools
            /\ r.category = slug
            /\ r.name = item.name
            /\ r.metric_raw = item.metric_raw
            /\ r.metric_value_estimate = item.metric_value
            /\ r.description_preview = item.description
            /\ r.url = make_full_url(a.href)
            /\ r.raw_text = a.text
            /\ r.page_data \in {None, PageData}
            /\ pc' = "entries"
            /\ left' = left - 1
     ]_vars

\* after an entry whose tool page could not be fetched, the next entry of the
\* same page was processed
C6_Witness ==
  /\ pc = "entries"
  /\ Len(tools) = 2
  /\ tools[1].page_data = None
  /\ tools[2].page_data = PageData

Slugs == [i \in DOMAIN categories |-> categories[i].slug]

\* C7: the run is aborted only by the failure of discovery, before any crawl
\* has started; the categories are crawled in the order of discovery; the
\* output is written once, after the last category; and short of the bound on
\* the requests the run is never stuck before the output is written.
C7_OnlyDiscoveryIsFatal ==
  /\ pc = "aborted" => crawled = <<>> /\ fetches = 0 /\ writes = 0
  /\ Len(crawled) <= Len(categories)
  /\ crawled = SubSeq(Slugs, 1, Len(crawled))
  /\ Len(crawled) = IF InCrawl THEN ci ELSE ci - 1
  /\ writes = IF pc = "done" THEN 1 ELSE 0
  /\ pc = "done" => crawled = Slugs /\ Len(output) = Len(main_tools)
  /\ pc # "done" => output = None
  /\ (pc \notin {"done", "aborted"} /\ fetches < MaxFetches) => ENABLED Next

\* two categories were crawled, listing fetches failed, and the output was
\* written
C7_Witness ==
  /\ pc = "done"
  /\ Len(crawled) = 2
  /\ main_tools = <<>>
  /\ fetches = 2

\* ------------------------------------------------------------------------
\* Properties of the parser
\* ------------------------------------------------------------------------

\* the place of the first marker in the normalized text n
FirstMarker(n) ==
  CHOOSE i \in Occurrences(n, Marker) : \A j \in Occurrences(n, Marker) : i <= j

\* the text before the first marker, and the text after it
HeadOf(n) == SubSeq(n, 1, FirstMarker(n) - 1)
TailOf(n) == SubSeq(n, FirstMarker(n) + Len(Marker), Len(n))

\* the places of the spaces of h
SpacesOf(h) == {i \in DOMAIN h : h[i] = " "}

LastSpace(h) == CHOOSE i \in SpacesOf(h) : \A j \in SpacesOf(h) : j <= i

\* the last token of a head, and the head without it
LastToken(h) == IF SpacesOf(h) = {} THEN h ELSE SubSeq(h, LastSpace(h) + 1, Len(h))
ButLastToken(h) == SubSeq(h, 1, LastSpace(h) - 1)

\* <digits>[.<digits>]
IsNumber(t) ==
  LET points == {i \in DOMAIN t : t[i] = "."}
  IN /\ t # <<>>
     /\ \A i \in DOMAIN t \ points : t[i] \in Digits
     /\ Cardinality(points) <= 1
     /\ \A i \in points : 1 < i /\ i < Len(t)

\* <digits>[.<digits>][K|M|B], the suffix in either case
IsMetricToken(t) ==
  \/ IsNumber(t)
  \/ /\ Len(t) > 1
     /\ t[Len(t)] \in {"K", "M", "B", "k", "m", "b"}
     /\ IsNumber(SubSeq(t, 1, Len(t) - 1))

\* a number followed by the Kelvin sign
IsKelvinToken(t) ==
  Len(t) > 1 /\ t[Len(t)] = "KELVIN" /\ IsNumber(SubSeq(t, 1, Len(t) - 1))

Called == parsed # Pending

\* a number followed by K, M or B in either case
IsSuffixedToken(t) ==
  /\ Len(t) > 1
  /\ t[Len(t)] \in {"K", "M", "B", "k", "m", "b"}
  /\ IsNumber(SubSeq(t, 1, Len(t) - 1))

\* for such a token, how many digits the number times the multiplier has
\* before the decimal point
ScaledDigits(t) ==
  LET points == {i \in DOMAIN t : t[i] = "."}
      whole == IF points = {} THEN SubSeq(t, 1, Len(t) - 1)
               ELSE SubSeq(t, 1, (CHOOSE i \in points : TRUE) - 1)
  IN Len(StripZeros(whole)) + Exponent(Upper(t[Len(t)]))

\* C8: when the raw text contains the marker exactly once,
\* name + " " + metric_raw + " 1233 " + description is the normalized text.
C8_Reconstruction ==
  (Called /\ Cardinality(Occurrences(text, Marker)) = 1) =>
    /\ parsed.exc = "no"
    /\ parsed.name # None /\ parsed.metric_raw # None /\ parsed.description # None
    /\ parsed.name \o Space \o parsed.metric_raw \o Marker \o parsed.description
         = Normalize(text)

\* C8 as amended: when the normalized text contains the marker exactly once,
\* the call raises KeyError if the last token of the head is a number followed
\* by the Kelvin sign, and OverflowError if it is a number with a suffix
\* whose product with the multiplier is no finite double: never with at most
\* MaxDecimalExponent digits before the point, always with more than
\* MaxDecimalExponent + 1.  Otherwise the normalized text is
\* name + " " + metric_raw + " 1233 " + description if the head has several
\* tokens and the last is a metric, and name + " 1233 " + description if not.
C8_ReconstructionAmended ==
  LET n == Normalize(text)
      last == LastToken(HeadOf(n))
  IN (Called /\ Cardinality(Occurrences(n, Marker)) = 1) =>
       IF IsKelvinToken(last)
         THEN parsed.exc = "KeyError"
         ELSE IF parsed.exc # "no"
           THEN /\ parsed.exc = "OverflowError"
                /\ IsSuffixedToken(last)
                /\ ScaledDigits(last) > MaxDecimalExponent
           ELSE /\ IsSuffixedToken(last) => ScaledDigits(last) <= MaxDecimalExponent + 1
                /\ IF IsMetricToken(last) /\ SpacesOf(HeadOf(n)) # {}
                     THEN n = parsed.name \o Space \o parsed.metric_raw \o Marker
                                \o parsed.description
                     ELSE n = parsed.name \o Marker \o parsed.description

\* a name, a metric, the marker and a description were put together again
C8_Witness ==
  /\ Called
  /\ parsed.exc = "no"
  /\ Cardinality(Occurrences(Normalize(text), Marker)) = 1
  /\ parsed.metric_raw = <<"5", "k">>
  /\ parsed.name = <<"a">>
  /\ parsed.description = <<"a">>

\* C9: the parser returns for every text; for the empty text the name is the
\* empty string, there is no metric and the description is empty; for a text
\* without the marker the name is the trimmed text and the description empty.
C9_TotalAndUnmarked ==
  Called =>
    /\ parsed.exc = "no"
    /\ text = <<>> =>
         /\ parsed.name = <<>>
         /\ parsed.metric_raw = None /\ parsed.metric_value = None
         /\ parsed.description = <<>>
    /\ ~Contains(text, Marker) =>
         /\ parsed.name = Strip(text)
         /\ parsed.description \in {<<>>, None}

\* C10: with the marker present the text is split at its first occurrence;
\* a last token of the head of the form <digits>[.<digits>][K|M|B] is the
\* metric and the name is the rest of the head (the whole head when it is its
\* only token); otherwise the name is the whole head and there is no metric.
C10_Segmentation ==
  LET n == Normalize(text)
  IN (Called /\ Contains(n, Marker)) =>
       /\ parsed.exc = "no"
       /\ parsed.description = TailOf(n)
       /\ IF IsMetricToken(LastToken(HeadOf(n)))
            THEN /\ parsed.metric_raw = LastToken(HeadOf(n))
                 /\ parsed.name = IF SpacesOf(HeadOf(n)) # {}
                                    THEN ButLastToken(HeadOf(n))
                                    ELSE HeadOf(n)
            ELSE /\ parsed.name = HeadOf(n)
                 /\ parsed.metric_raw = None
                 /\ parsed.metric_value = None

\* ------------------------------------------------------------------------
\* Properties of parse_metric
\* ------------------------------------------------------------------------

MetricCalled == metric # PendingMetric

IsDigitsToken(t) == t # <<>> /\ \A i \in DOMAIN t : t[i] \in Digits

\* C11: for a token <n>[K|M|B], the suffix in either case, the value is n
\* times 1,000 / 1,000,000 / 1,000,000,000 cut to an integer; a token of digits
\* only yields that integer; the raw value returned is the token.
C11_MetricConversion ==
  MetricCalled =>
    /\ IsSuffixedToken(raw) =>
         /\ metric.exc = "no"
         /\ metric.raw = raw
         /\ metric.value = Exact(SubSeq(raw, 1, Len(raw) - 1),
                                 Exponent(Upper(raw[Len(raw)])))
    /\ IsDigitsToken(raw) =>
         /\ metric.exc = "no"
         /\ metric.raw = raw
         /\ metric.value = StripZeros(raw)

\* ------------------------------------------------------------------------
\* Properties of get_soup
\* ------------------------------------------------------------------------

\* the requests of the call, and the lengths of its waits, in order
Requests == SelectSeq(events, LAMBDA e : e[1] = "request")

Waits == SelectSeq(events, LAMBDA e : e[1] = "sleep")

\* C12: a call makes at most retries requests, 3 by default; a successful
\* request is the last event and the call returns on it; every wait follows a
\* failed request and is strictly longer than the wait before it; the failure
\* is raised only when all retries requests have failed, and the last event is
\* then the failed request, not a wait.
C12_RetryProtocol ==
  result # "idle" =>
    /\ Len(Requests) <= retries
    /\ retries = DefaultRetries => Len(Requests) <= 3
    /\ \A i \in DOMAIN events :
         /\ events[i] = Request(TRUE) => i = Len(events) /\ result = "returned"
         /\ events[i][1] = "sleep" => i > 1 /\ events[i - 1] = Request(FALSE)
         /\ (events[i][1] = "request" /\ i > 1) => events[i - 1][1] = "sleep"
    /\ result = "returned" => events # <<>> /\ events[Len(events)] = Request(TRUE)
    /\ \A i, j \in DOMAIN Waits : i < j => Waits[i][2] < Waits[j][2]
    /\ result = "raised" =>
         /\ Len(Requests) = retries
         /\ \A i \in DOMAIN Requests : Requests[i] = Request(FALSE)
         /\ events[Len(events)] = Request(FALSE)
    /\ result = "running" => Len(Requests) = attempt - 1
    /\ result = "RuntimeError" => retries = 0 /\ events = <<>>

\* the default call failed three times, waiting 3 and then 6 seconds
C12_Witness ==
  /\ result = "raised"
  /\ retries = DefaultRetries
  /\ backoff = DefaultBackoff
  /\ events = <<Request(FALSE), Wait(3), Request(FALSE), Wait(6), Request(FALSE)>>

\* ------------------------------------------------------------------------
\* Properties of the run
\* ------------------------------------------------------------------------

\* C13: every listing request but the first of the run comes right after a
\* polite delay: within a category, and from one category to the next.
C13_PolitenessDelays ==
  [][(fetches' = fetches + 1 /\ fetches > 0)
       => (log # <<>> /\ log[Len(log)] = Sleep)]_vars

\* C14: every category's crawl starts with an empty seen set, and a URL that
\* has a record from an earlier category and is listed in this category too
\* has exactly one record in this category's result.
C14_NoGlobalDedup ==
  /\ (pc = "page" /\ log = <<>>) => seen_urls = {}
  /\ pc = "finished" =>
       \A u \in Urls :
         (first_page[u] # 0 /\ RecordsOf(main_tools, u) # {})
           => Cardinality(RecordsOf(all_tools, u)) = 1

\* C18: at the end of a category's crawl the urls of the returned records are
\* exactly the URLs marked seen.
C18_NoEntryLost ==
  pc = "finished" => {all_tools[i].url : i \in DOMAIN all_tools} = seen_urls

\* the keys of the records of rs
KeysOf(rs) == {SortKey(rs[i]) : i \in DOMAIN rs}

\* C15: the sequence written is the list of all gathered records put in
\* ascending order of (category, name): the records with any one key are the
\* same records, unchanged and in crawl order, and no record comes before one
\* with a smaller key; after the write the list is the sequence written.
C15_OutputOrdering ==
  /\ [](pc = "done" => output = main_tools)
  /\ [][(pc # "done" /\ pc' = "done") =>
          /\ Len(output') = Len(main_tools)
          /\ \A i, j \in DOMAIN output' :
               i < j => ~KeyLess(SortKey(output'[j]), SortKey(output'[i]))
          /\ \A k \in KeysOf(main_tools) \cup KeysOf(output') :
               SelectSeq(output', LAMBDA r : SortKey(r) = k)
                 = SelectSeq(main_tools, LAMBDA r : SortKey(r) = k)
       ]_vars

\* category y was crawled before x; the output has x's record first, then the
\* two records of y that have the same name, in the order they were listed
C15_Witness ==
  /\ pc = "done"
  /\ crawled = <<"y", "x">>
  /\ Len(output) = 3
  /\ output[1].category = "x"
  /\ output[2].category = "y" /\ output[3].category = "y"
  /\ output[2].name = output[3].name
  /\ output[2].url = <<BASE_URL, "tools", "c">>
  /\ output[3].url = <<BASE_URL, "tools", "a">>

\* the lists of records of the run
RecordLists ==
  {tools, all_tools, main_tools} \cup (IF pc = "done" THEN {output} ELSE {})

ListedUrls == {u \in Urls : first_page[u] # 0}

\* the requests for the base URL this category has made
RootRequests == SelectSeq(log, LAMBDA e : e = GetRoot)

\* C17: in the pagination loop page - 1 <= |seen_urls|, and seen_urls holds
\* only URLs the site listed; so a crawl makes at most n + 1 requests for
\* ?page=... when the site lists n distinct URLs, and at most one request
\* for the base URL.  Going back to the head of the loop raises page by one
\* and needs a URL not seen before.
C17_ProgressBound ==
  /\ [](InCrawl =>
          /\ page - 1 <= Cardinality(seen_urls)
          /\ seen_urls \subseteq ListedUrls
          /\ Len(PageRequests) <= Cardinality(ListedUrls) + 1
          /\ Len(RootRequests) <= 1)
  /\ [][(pc = "entries" /\ pc' = "page") =>
          /\ page' = page + 1
          /\ Cardinality(seen_urls) >= page
          /\ \E i \in DOMAIN all_tools' : first_page[all_tools'[i].url] = page
       ]_vars

\* the site listed one URL, on ?page=1 and again on ?page=2: two requests
\* and the crawl is over although the second page had an entry
C17_Witness ==
  /\ pc = "finished"
  /\ Cardinality(ListedUrls) = 1
  /\ relisted = ListedUrls
  /\ log = <<Get(1), Sleep, Get(2)>>
  /\ page = 2

\* ------------------------------------------------------------------------
\* A metric without a value
\* ------------------------------------------------------------------------

\* <digits>.<digits>
IsDecimalToken(t) == IsNumber(t) /\ \E i \in DOMAIN t : t[i] = "."

\* more digits than int() converts
IsLongDigitsToken(t) == IsDigitsToken(t) /\ Len(t) > MaxStrDigits

\* C19: a metric_raw is returned without a metric value only for a decimal
\* with no suffix; a head whose last token is such a decimal loses it from
\* name, and the token is metric_raw with no value.
C19_ValueUnlessDecimal ==
  LET n == Normalize(text)
  IN (Called /\ parsed.exc = "no") =>
       /\ (parsed.metric_raw # None /\ parsed.metric_value = None) =>
            IsDecimalToken(parsed.metric_raw)
       /\ (Contains(n, Marker) /\ IsDecimalToken(LastToken(HeadOf(n)))) =>
            /\ parsed.metric_raw = LastToken(HeadOf(n))
            /\ parsed.metric_value = None
            /\ parsed.name = IF SpacesOf(HeadOf(n)) = {} THEN <<>>
                             ELSE ButLastToken(HeadOf(n))

\* C19 as amended: a metric_raw is returned without a metric value only for
\* a decimal with no suffix or for a run of more digits than int() converts;
\* a head whose last token is one of these has it as metric_raw with no
\* value, and loses it from name unless it is the head's only token, which
\* stays as name.
C19_ValueUnlessDecimalAmended ==
  LET n == Normalize(text)
  IN (Called /\ parsed.exc = "no") =>
       /\ (parsed.metric_raw # None /\ parsed.metric_value = None) =>
            \/ IsDecimalToken(parsed.metric_raw)
            \/ IsLongDigitsToken(parsed.metric_raw)
       /\ (/\ Contains(n, Marker)
           /\ \/ IsDecimalToken(LastToken(HeadOf(n)))
              \/ IsLongDigitsToken(LastToken(HeadOf(n)))) =>
            /\ parsed.metric_raw = LastToken(HeadOf(n))
            /\ parsed.metric_value = None
            /\ parsed.name = IF SpacesOf(HeadOf(n)) = {} THEN HeadOf(n)
                             ELSE ButLastToken(HeadOf(n))

\* a decimal that is the head's only token was returned as metric_raw and
\* as name, with no value
C19_Witness ==
  /\ Called
  /\ parsed.exc = "no"
  /\ parsed.name = <<"5", ".", "5">>
  /\ parsed.metric_raw = <<"5", ".", "5">>
  /\ parsed.metric_value = None

\* the run of MaxStrDigits + 1 digits was returned as metric_raw, with no value
C19_LongDigits ==
  /\ Called
  /\ parsed.exc = "no"
  /\ parsed.name = <<"a">>
  /\ Len(parsed.metric_raw) = MaxStrDigits + 1
  /\ parsed.metric_value = None

====
